---- MODULE Spec2Model ----
(***************************************************************************)
(* Model of c_src/cauchycoding.cpp (leo_erasure): the CauchyCoding object  *)
(* with its parameter check, encoder, decoder and repairer.                *)
(*                                                                         *)
(* Binaries are sequences of byte values.  The object handed to doEncode   *)
(* holds the byte value p at position p (1-based), so that every byte of   *)
(* the object is distinct and non-zero and any misplaced copy shows.       *)
(* The Galois-field routines of jerasure are the external Field Engine:    *)
(* parity bytes are symbolic values >= 256 computed from the data bytes,   *)
(* and the decode routines restore the erased slots they are asked for.    *)
(***************************************************************************)
EXTENDS Integers, Sequences, FiniteSets, TLC

\* ---------------------------------------------------------------- bounds
MaxK == 2
MaxM == 2
MaxW == 2
MaxDataSize == 33
MaxRepairLen == 2
MaxOverrun == 2

\* ------------------------------------------------------------- constants
\* 16-byte vector alignment used by the stripe layout and the scratch slack.
ALIGN == 16
\* Width of the C int holding k, m and w.
INT_BITS == 32
\* Slack of the encoder's scratch region; its low-bit mask is SLACK - 1.
SLACK == 16

INT_MAX == (2 ^ (INT_BITS - 2) - 1) + 2 ^ (INT_BITS - 2)
INT_MIN == (0 - INT_MAX) - 1

VARIABLES
    k, m, w,        \* CauchyCoding fields
    pc,             \* "new", "ready", "rejected", "carve", "encoded",
                    \* "done", "crashed"
    error,          \* what() of the exception the last call threw, "" if none
    dataBin,        \* doEncode: the object
    blockSize,      \* doEncode: blockSize
    remain,         \* doEncode: remain
    filled,         \* doEncode: filled
    enc,            \* doEncode: scratch size, align, tail copy, returned views
    blockList,      \* doEncode: the returned fragments (the stripe)
    call,           \* the last doDecode / doRepair call: arguments and effects
    ub              \* undefined behaviour executed so far (set of tags)

vars == <<k, m, w, pc, error, dataBin, blockSize, remain, filled, enc,
          blockList, call, ub>>

\* ---------------------------------------------------------------- helpers
Min(a, b) == IF a <= b THEN a ELSE b

Range(s) == {s[i] : i \in 1..Len(s)}

\* The elements of the set of integers S in ascending order.
RECURSIVE Ascending(_)
Ascending(S) ==
    IF S = {} THEN <<>>
    ELSE LET top == CHOOSE x \in S : \A y \in S : y <= x
         IN  Append(Ascending(S \ {top}), top)

\* All sequences over S of length 0..n.
SeqsUpTo(S, n) == UNION {[1..l -> S] : l \in 0..n}

\* int + int, two's-complement wrap on overflow (operands are > 0 whenever
\* the sum is evaluated).
AddInt(a, b) ==
    IF a > INT_MAX - b THEN ((a - INT_MAX) - 1) + ((b - INT_MAX) - 1)
    ELSE a + b

\* The values `1 << s` can take.  Up to 30 the shift is exact; at 31 the set
\* bit is the sign bit; from 32 on the shift count exceeds the width of int
\* and the result is whatever the shifter gives: the count taken modulo 32,
\* or zero.
ShiftLeftOne(s) ==
    IF s < INT_BITS - 1 THEN {2 ^ s}
    ELSE IF s = INT_BITS - 1 THEN {INT_MIN}
    ELSE {0} \cup (IF s % INT_BITS = INT_BITS - 1 THEN {INT_MIN}
                   ELSE {2 ^ (s % INT_BITS)})

\* roundTo(numToRound, multiple): numToRound rounded up to a multiple.
roundTo(numToRound, multiple) ==
    IF multiple = 0 THEN numToRound
    ELSE IF numToRound % multiple = 0 THEN numToRound
    ELSE numToRound + multiple - (numToRound % multiple)

\* enif_make_sub_binary(bin, pos, size)
SubBinary(bin, pos, size) == SubSeq(bin, pos + 1, pos + size)

\* memcpy(buf + off, src, n): bytes that would land past the end of buf are
\* not part of buf (the caller records the overrun).
Memcpy(buf, off, src, n) ==
    LET fit == Min(n, Len(buf) - off)
    IN  IF fit <= 0 THEN buf
        ELSE SubSeq(buf, 1, off) \o SubSeq(src, 1, fit)
                 \o SubSeq(buf, off + fit + 1, Len(buf))

\* A buffer of n bytes, every byte b.
Fill(n, b) == SubSeq([p \in 1..n |-> b], 1, n)

\* ------------------------------------------------------------ checkParams
\* The exception checkParams can throw for (kk, mm, ww); "" is a normal
\* return.
checkParamsOutcomes(kk, mm, ww) ==
    IF kk <= 0 \/ mm <= 0 \/ ww <= 0 THEN {"Invalid Coding Parameters"}
    ELSE {IF AddInt(kk, mm) > p THEN "Invalid Coding Parameters (larger w)"
          ELSE "" : p \in ShiftLeftOne(ww)}

NoCall == [op |-> "none"]
NoEnc == [state |-> "none"]

checkParams ==
    /\ pc = "new"
    /\ \E e \in checkParamsOutcomes(k, m, w) :
          /\ error' = e
          /\ pc' = IF e = "" THEN "ready" ELSE "rejected"
    /\ UNCHANGED <<k, m, w, dataBin, blockSize, remain, filled, enc,
                   blockList, call, ub>>

\* --------------------------------------------------------------- doEncode
\* Bytes an uninitialised buffer can hold.
UninitBytes == {0, 255}

\* Low four bits of the address of the object, and of the address
\* enif_alloc_binary returns (16-byte aligned).
AddrLow == {0, SLACK - 1}
AllocLow == {0}

\* The object of length n: byte p holds the value p.
Object(n) == [p \in 1..n |-> p]

\* Mutant of BlockSize: the rounding of the word count to 16 is left out.
BlockSizeUnaligned(dataSize, kk, ww) ==
    (roundTo(dataSize, kk * ww) \div (kk * ww)) * ww

\* blockSize as doEncode computes it from data.size.
BlockSize(dataSize, kk, ww) ==
    roundTo((roundTo(dataSize, kk * ww) \div (kk * ww)), ALIGN) * ww

\* align: the shift that gives the scratch region the object's alignment
\* modulo 16, from the low four bits of the two addresses.
AlignShift(dataLow, tmpLow) == ((dataLow - tmpLow) + SLACK) % SLACK

RECURSIVE WeightedSum(_, _, _)
WeightedSum(blocks, p, i) ==
    IF i = 0 THEN 0 ELSE i * blocks[i][p] + WeightedSum(blocks, p, i - 1)

\* jerasure_schedule_encode: parity block j (1..m) of the given data blocks.
\* Parity bytes are symbolic: 256 and up, a function of the data bytes.
ScheduleEncode(dataBlocks, j, size) ==
    [p \in 1..size |->
        256 + (((j * WeightedSum(dataBlocks, p, Len(dataBlocks))) + j) % 256)]

\* The scratch region after memset and the copy of the tail.
EncodeScratch(g, f, bs, al) ==
    LET tmpSize == (k + m - f) * bs + SLACK
        raw == Fill(tmpSize, g)
        zeroed == Memcpy(raw, al, Fill((k + m - f) * bs, 0), (k + m - f) * bs)
        tailLen == Len(dataBin) - f * bs
    IN  Memcpy(zeroed, al, SubBinary(dataBin, f * bs, tailLen), tailLen)

\* What dataBlocks[i] points at, i in 0..k-1.
EncodeDataBlock(tmp, i, f, bs, al) ==
    IF i < f THEN SubBinary(dataBin, i * bs, bs)
    ELSE SubBinary(tmp, al + (i - f) * bs, bs)

\* dataBlocks[0..n-1], each as the bytes it points at.
RECURSIVE EncodeDataBlocks(_, _, _, _, _)
EncodeDataBlocks(tmp, n, f, bs, al) ==
    IF n = 0 THEN <<>>
    ELSE Append(EncodeDataBlocks(tmp, n - 1, f, bs, al),
                EncodeDataBlock(tmp, n - 1, f, bs, al))

\* The scratch region once jerasure_schedule_encode has filled
\* codeBlocks[0..n-1], which point into it behind the k - f data slots.
RECURSIVE EncodeParity(_, _, _, _, _, _)
EncodeParity(tmp, data, n, f, bs, al) ==
    IF n = 0 THEN tmp
    ELSE Memcpy(EncodeParity(tmp, data, n - 1, f, bs, al),
                al + (k - f + n - 1) * bs, ScheduleEncode(data, n, bs), bs)

\* The views pushed on blockList, as (buffer, position, size).
EncodeViews(f, bs, al) ==
    [i \in 1..(k + m) |->
        IF i - 1 < f THEN [buf |-> "data", pos |-> (i - 1) * bs, size |-> bs]
        ELSE [buf |-> "tmp", pos |-> (i - 1 - f) * bs + al, size |-> bs]]

\* Calls are explored for parameters within the bounds.
InBounds == k \in 1..MaxK /\ m \in 1..MaxM /\ w \in 1..MaxW

doEncode ==
    /\ pc = "ready"
    /\ InBounds
    /\ \E n \in 0..MaxDataSize :
          /\ dataBin' = Object(n)
          /\ blockSize' = BlockSize(n, k, w)
          /\ remain' = n
    /\ filled' = 0
    /\ pc' = "carve"
    /\ UNCHANGED <<k, m, w, error, enc, blockList, call, ub>>

\* One iteration of `while (remain >= blockSize)`.  dataBlocks has k
\* entries: a write at index filled >= k is outside the array, after which
\* the call either goes on or dies.
EncodeCarve ==
    /\ pc = "carve"
    /\ remain >= blockSize
    /\ filled < k + MaxOverrun
    /\ filled' = filled + 1
    /\ remain' = remain - blockSize
    /\ \/ /\ filled < k
          /\ UNCHANGED <<pc, ub>>
       \/ /\ filled >= k
          /\ ub' = ub \cup {"dataBlocks"}
          /\ pc' \in {"carve", "crashed"}
    /\ UNCHANGED <<k, m, w, error, dataBin, blockSize, enc, blockList, call>>

\* From the exit of the loop to the return of blockList.
EncodeFinish ==
    /\ pc = "carve"
    /\ remain < blockSize
    /\ \E g \in UninitBytes, dataLow \in AddrLow, tmpLow \in AllocLow :
          LET al == AlignShift(dataLow, tmpLow)
              tmp == EncodeScratch(g, filled, blockSize, al)
              data == EncodeDataBlocks(tmp, k, filled, blockSize, al)
              tmpBin == EncodeParity(tmp, data, m, filled, blockSize, al)
              views == EncodeViews(filled, blockSize, al)
          IN  /\ enc' = [state |-> "done",
                         tmpSize |-> Len(tmp),
                         align |-> al,
                         tailSrc |-> filled * blockSize,
                         tailLen |-> Len(dataBin) - filled * blockSize,
                         views |-> views]
              /\ blockList' = [i \in 1..(k + m) |->
                    SubBinary(IF views[i].buf = "data" THEN dataBin ELSE tmpBin,
                              views[i].pos, views[i].size)]
    /\ pc' = "encoded"
    /\ UNCHANGED <<k, m, w, error, dataBin, blockSize, remain, filled, call, ub>>

\* ------------------------------------------------------ doDecode, doRepair
\* Fragment indices a caller hands in: the k+m indices of the stripe and one
\* index past them.
IdInputs == 0..(k + m)

\* Index lists a caller hands in: any set of indices in ascending order,
\* alone or followed by a second copy of one of them.
IdLists ==
    UNION {{Ascending(S)} \cup {Append(Ascending(S), d) : d \in S} :
           S \in SUBSET IdInputs}

\* blockList[i] of a decode/repair call for blockIdList[i] = id: the
\* encoder's fragment id (some fragment of the stripe when id names none).
Supplied(id) == IF id \in 0..(k + m - 1) THEN blockList[id + 1] ELSE blockList[1]

\* Mutant of doDecodeCheck: the uniqueness test is left out.
doDecodeCheckNoUnique(blockIdList) ==
    IF Cardinality(Range(blockIdList)) < k THEN "Not Enough Blocks" ELSE ""

\* The exception doDecode's entry check throws for blockIdList, "" if none.
doDecodeCheck(blockIdList) ==
    LET availSet == Range(blockIdList)
    IN  IF Cardinality(availSet) < k THEN "Not Enough Blocks"
        ELSE IF Cardinality(availSet) < Len(blockIdList)
             THEN "Blocks should be unique"
        ELSE ""

\* Mutant of doRepairCheck: the two tests are made in the other order.
doRepairCheckSwapped(blockIdList) ==
    LET availSet == Range(blockIdList)
    IN  IF Cardinality(availSet) < Len(blockIdList)
        THEN "Blocks should be unique"
        ELSE IF Cardinality(availSet) < k THEN "Not Enough Blocks"
        ELSE ""

\* The exception doRepair's entry check throws for blockIdList, "" if none.
doRepairCheck(blockIdList) ==
    LET availSet == Range(blockIdList)
    IN  IF Cardinality(availSet) < k THEN "Not Enough Blocks"
        ELSE IF Cardinality(availSet) < Len(blockIdList)
             THEN "Blocks should be unique"
        ELSE ""

\* blockSize after the loop over blockIdList: the size of the fragment
\* inspected last.
InspectedSize(blockIdList) == Len(Supplied(blockIdList[Len(blockIdList)]))

\* needFix: some data index is not among the supplied ones.
NeedFix(availSet) == \E i \in 0..(k - 1) : i \notin availSet

\* copySize = min(dataSize - offset, blockSize) in size_t: below zero the
\* difference wraps to 2^64 - (offset - dataSize), which exceeds blockSize.
FastCopySize(dataSize, offset, bs) ==
    IF dataSize >= offset THEN Min(dataSize - offset, bs) ELSE bs

\* The memcpy calls of the fast path, as (offset, copySize), for i = 0..k-1.
FastCopies(dataSize, bs) ==
    [i \in 1..k |-> [off |-> (i - 1) * bs,
                     len |-> FastCopySize(dataSize, (i - 1) * bs, bs)]]

\* file after the first n iterations of the fast path's copy loop.
RECURSIVE FastCopy(_, _, _, _)
FastCopy(file, n, dataSize, bs) ==
    IF n = 0 THEN file
    ELSE Memcpy(FastCopy(file, n - 1, dataSize, bs), (n - 1) * bs,
                blockList[n], FastCopySize(dataSize, (n - 1) * bs, bs))

\* erasures[0..j-1] after the first n iterations of the slot loop.
RECURSIVE Erasures(_, _)
Erasures(availSet, n) ==
    IF n = 0 THEN <<>>
    ELSE IF (n - 1) \in availSet THEN Erasures(availSet, n - 1)
    ELSE Append(Erasures(availSet, n - 1), n - 1)

\* tmpMemory after the first n iterations of the slot loop.
RECURSIVE FillSlots(_, _, _, _)
FillSlots(tmp, availSet, n, bs) ==
    IF n = 0 THEN tmp
    ELSE IF (n - 1) \in availSet
         THEN Memcpy(FillSlots(tmp, availSet, n - 1, bs), (n - 1) * bs,
                     blockList[n], bs)
    ELSE FillSlots(tmp, availSet, n - 1, bs)

\* Field Engine: the scratch region with the first n slots of the list
\* `slots` restored to the content they were encoded with.
RECURSIVE Restore(_, _, _, _)
Restore(tmp, slots, n, bs) ==
    IF n = 0 THEN tmp
    ELSE Memcpy(Restore(tmp, slots, n - 1, bs), slots[n] * bs,
                blockList[slots[n] + 1], bs)

\* jerasure_schedule_decode_data_lazy: fills every erased slot in place;
\* with more than m erasures nothing can be decoded.
ScheduleDecode(tmp, erasures, bs) ==
    IF Len(erasures) > m THEN tmp ELSE Restore(tmp, erasures, Len(erasures), bs)

\* jerasure_schedule_decode_selected_lazy: fills the erased slots named in
\* `selected` (read up to its -1 sentinel) in place.
ScheduleDecodeSelected(tmp, erasures, selected, bs) ==
    LET wanted == SelectSeq(SubSeq(selected, 1, Len(selected) - 1),
                            LAMBDA s : s \in Range(erasures))
    IN  IF Len(erasures) > m THEN tmp ELSE Restore(tmp, wanted, Len(wanted), bs)

\* Mutant of RepairBlocks: the view is taken at the position in the request
\* list instead of at the requested slot.
RepairBlocksByPosition(allBlocksBin, repairList, bs) ==
    [i \in 1..(Len(repairList) - 1) |->
        SubBinary(allBlocksBin, (i - 1) * bs, bs)]

\* The views doRepair pushes on repairBlocks, for i = 0..repairList.size()-2
\* (repairList now ends with the sentinel).
RepairBlocks(allBlocksBin, repairList, bs) ==
    [i \in 1..(Len(repairList) - 1) |->
        SubBinary(allBlocksBin, repairList[i] * bs, bs)]

\* Writes outside an array made while indexing blocks[] and erasures[].
SlotOverruns(blockIdList, erasures) ==
    (IF \E i \in 1..Len(blockIdList) : blockIdList[i] \notin 0..(k + m - 1)
     THEN {"blocks"} ELSE {})
    \cup (IF Len(erasures) >= k + m THEN {"erasures"} ELSE {})

Thrown(op, blockIdList, dataSize, repairList, err) ==
    [op |-> op, blockIdList |-> blockIdList, dataSize |-> dataSize,
     repairList |-> repairList, error |-> err, returned |-> FALSE,
     allocs |-> <<>>, engine |-> <<>>, slots |-> <<>>, erasures |-> <<>>,
     sentinel |-> -1, copies |-> <<>>, result |-> <<>>, repairBlocks |-> <<>>,
     ub |-> {}]

\* doDecode(blockList, blockIdList, dataSize), g the content of fresh memory.
DecodeCall(blockIdList, dataSize, g) ==
    LET err == doDecodeCheck(blockIdList)
        availSet == Range(blockIdList)
        bs == InspectedSize(blockIdList)
        base == Thrown("decode", blockIdList, dataSize, <<>>, err)
        copies == FastCopies(dataSize, bs)
        erasures == Erasures(availSet, k + m)
        tmp == FillSlots(Fill(bs * (k + m), g), availSet, k + m, bs)
    IN  IF err # "" THEN base
        ELSE IF ~NeedFix(availSet)
        THEN [base EXCEPT
                !.returned = TRUE,
                !.allocs = <<dataSize>>,
                !.slots = blockIdList,
                !.copies = copies,
                !.result = FastCopy(Fill(dataSize, g), k, dataSize, bs),
                !.ub = SlotOverruns(blockIdList, <<>>) \cup
                       (IF \E i \in 1..k :
                              copies[i].len > 0 /\
                              copies[i].off + copies[i].len > dataSize
                        THEN {"memcpy"} ELSE {})]
        ELSE [base EXCEPT
                !.returned = TRUE,
                !.allocs = <<bs * (k + m)>>,
                !.slots = blockIdList,
                !.erasures = erasures,
                !.sentinel = Len(erasures),
                !.engine = <<"cauchy_good_general_coding_matrix",
                             "jerasure_matrix_to_bitmatrix",
                             "jerasure_schedule_decode_data_lazy">>,
                !.result = SubBinary(ScheduleDecode(tmp, erasures, bs),
                                     0, dataSize),
                !.ub = SlotOverruns(blockIdList, erasures)]

\* doRepair(blockList, blockIdList, repairList).
RepairCall(blockIdList, repairList, g) ==
    LET err == doRepairCheck(blockIdList)
        availSet == Range(blockIdList)
        bs == InspectedSize(blockIdList)
        base == Thrown("repair", blockIdList, 0, repairList, err)
        erasures == Erasures(availSet, k + m)
        tmp == FillSlots(Fill(bs * (k + m), g), availSet, k + m, bs)
        selected == Append(repairList, -1)
    IN  IF err # "" THEN base
        ELSE [base EXCEPT
                !.returned = TRUE,
                !.allocs = <<bs * (k + m)>>,
                !.slots = blockIdList,
                !.erasures = erasures,
                !.sentinel = Len(erasures),
                !.engine = <<"cauchy_good_general_coding_matrix",
                             "jerasure_matrix_to_bitmatrix",
                             "jerasure_schedule_decode_selected_lazy">>,
                !.repairBlocks =
                    RepairBlocks(ScheduleDecodeSelected(tmp, erasures,
                                                        selected, bs),
                                 selected, bs),
                !.ub = SlotOverruns(blockIdList, erasures)]

\* A call that executed undefined behaviour returns as computed or dies.
Finish(c) ==
    /\ error' = c.error
    /\ ub' = ub \cup c.ub
    /\ enc' = NoEnc
    /\ \/ /\ call' = c
          /\ pc' = "done"
       \/ /\ c.ub # {}
          /\ call' = [c EXCEPT !.returned = FALSE, !.result = <<>>,
                               !.repairBlocks = <<>>]
          /\ pc' = "crashed"
    /\ UNCHANGED <<k, m, w, dataBin, blockSize, remain, filled, blockList>>

\* A decode call on fragments of the stripe; dataSize is the length of the
\* encoded object, or 0.
doDecode ==
    /\ pc = "encoded"
    /\ \E blockIdList \in IdLists,
          dataSize \in {0, Len(dataBin)}, g \in UninitBytes :
          Finish(DecodeCall(blockIdList, dataSize, g))

\* A repair call on fragments of the stripe, asking for up to MaxRepairLen
\* of the indices that were not supplied.
doRepair ==
    /\ pc = "encoded"
    /\ \E blockIdList \in IdLists, g \in UninitBytes :
          \E repairList \in SeqsUpTo((0..(k + m - 1)) \ Range(blockIdList),
                                     MaxRepairLen) :
             Finish(RepairCall(blockIdList, repairList, g))

\* ----------------------------------------------------------------- Init
KInputs == (-1..MaxK) \cup {INT_MAX}
MInputs == (-1..MaxM) \cup {INT_MAX}
WInputs == (-1..MaxW) \cup {INT_BITS - 1, INT_BITS}

Init ==
    /\ k \in KInputs
    /\ m \in MInputs
    /\ w \in WInputs
    /\ pc = "new"
    /\ error = ""
    /\ dataBin = <<>>
    /\ blockSize = 0
    /\ remain = 0
    /\ filled = 0
    /\ enc = NoEnc
    /\ blockList = <<>>
    /\ call = NoCall
    /\ ub = {}

Next ==
    \/ checkParams
    \/ doEncode
    \/ EncodeCarve
    \/ EncodeFinish
    \/ doDecode
    \/ doRepair

Spec == Init /\ [][Next]_vars

\* ================================================================ claims
Called(op) == call.op = op
CalledAny == call.op \in {"decode", "repair"}
Distinct(ids) == Cardinality(Range(ids))
HasDuplicate(ids) == Distinct(ids) < Len(ids)
Slots == 0..(k + m - 1)
\* The index list is a set of at least k stripe indices, each given once.
ValidFragmentSet(ids) ==
    /\ Distinct(ids) >= k
    /\ ~HasDuplicate(ids)
    /\ Range(ids) \subseteq Slots
CeilDiv(a, b) == (a + b - 1) \div b
RoundUp(a, b) == b * CeilDiv(a, b)
Max(a, b) == IF a >= b THEN a ELSE b
EncodeDied == pc = "crashed" /\ call.op = "none"

\* C1: round trip.  Every object is encoded, and decoding any set of at
\* least k distinct fragments of the stripe with dataSize = the object's
\* length returns exactly the object, on the fast path and on the erasure
\* path alike.
C1_RoundTrip ==
    /\ ~EncodeDied
    /\ (Called("decode") /\ ValidFragmentSet(call.blockIdList)
            /\ call.dataSize = Len(dataBin))
         => (call.returned /\ call.result = dataBin)

\* C2 as stated: a decode or repair call whose index list repeats an index
\* fails with "Blocks should be unique", whatever the number of distinct
\* indices.
C2_DuplicateAlwaysUnique ==
    (CalledAny /\ HasDuplicate(call.blockIdList))
        => (~call.returned /\ call.error = "Blocks should be unique")

\* C2 amended: a decode or repair call whose index list repeats an index
\* always fails: with "Blocks should be unique" when the list holds at least
\* k distinct indices, and with "Not Enough Blocks" when it holds fewer.
C2_DuplicateRejected ==
    (CalledAny /\ HasDuplicate(call.blockIdList))
        => /\ ~call.returned
           /\ call.result = <<>> /\ call.repairBlocks = <<>>
           /\ call.error = IF Distinct(call.blockIdList) >= k
                           THEN "Blocks should be unique"
                           ELSE "Not Enough Blocks"

C2_Witness ==
    /\ Called("decode")
    /\ HasDuplicate(call.blockIdList)
    /\ Distinct(call.blockIdList) >= k
    /\ call.error = "Blocks should be unique"

\* C3: a decode or repair call whose index list holds fewer than k distinct
\* indices fails with "Not Enough Blocks", before any buffer is allocated
\* and before any Field Engine routine is called.
C3_InsufficientRejected ==
    (CalledAny /\ Distinct(call.blockIdList) < k)
        => /\ ~call.returned
           /\ call.error = "Not Enough Blocks"
           /\ call.allocs = <<>>
           /\ call.engine = <<>>
           /\ call.slots = <<>>

C3_Witness ==
    /\ Called("repair")
    /\ HasDuplicate(call.blockIdList)
    /\ Distinct(call.blockIdList) = k - 1
    /\ call.error = "Not Enough Blocks"
    /\ call.allocs = <<>>

\* k + m > 2^w over the integers, for 0 < kk, mm <= INT_MAX and ww > 0.
SumExceedsField(kk, mm, ww) ==
    IF ww >= INT_BITS THEN FALSE
    ELSE IF ww = INT_BITS - 1 THEN kk - 1 > INT_MAX - mm
    ELSE kk > 2 ^ ww - mm

\* C4: checkParams fails with "Invalid Coding Parameters" exactly when
\* k <= 0, m <= 0 or w <= 0; otherwise with "Invalid Coding Parameters
\* (larger w)" exactly when k + m > 2^w over the integers; otherwise it
\* succeeds; and it changes nothing else.
C4_CheckParams ==
    pc \in {"ready", "rejected"}
        => /\ error = IF k <= 0 \/ m <= 0 \/ w <= 0
                      THEN "Invalid Coding Parameters"
                      ELSE IF SumExceedsField(k, m, w)
                           THEN "Invalid Coding Parameters (larger w)"
                      ELSE ""
           /\ (pc = "ready") = (error = "")
           /\ dataBin = <<>> /\ blockList = <<>> /\ call = NoCall /\ ub = {}

EncodeStarted == pc \in {"carve", "encoded", "done", "crashed"}

\* C5: the fragment size doEncode computes is
\* roundUp(ceil(dataSize / (k*w)), 16) * w; it is a multiple of w and of 16,
\* and k fragments cover the object.  For k=4, w=8, dataSize=1000 it is 256.
C5_StripeLayout ==
    /\ BlockSize(1000, 4, 8) = 256
    /\ EncodeStarted
         => /\ blockSize = RoundUp(CeilDiv(Len(dataBin), k * w), 16) * w
            /\ blockSize % w = 0
            /\ blockSize % 16 = 0
            /\ k * blockSize >= Len(dataBin)

C5_Witness ==
    /\ pc = "carve"
    /\ k = 2 /\ w = 2
    /\ Len(dataBin) = 33
    /\ blockSize = 32

\* C6: doEncode returns, for every object, k+m fragments of blockSize bytes
\* in index order; the first floor(dataSize / blockSize) are views of the
\* object, the others views of the scratch region; the data fragments
\* concatenated are the object followed by zeros; every view and the tail
\* copy lie inside their buffer.
C6_EncodeShape ==
    /\ ~EncodeDied
    /\ (pc = "encoded" /\ enc.state = "done") =>
         LET n == Len(dataBin)
             f == n \div blockSize
         IN  /\ filled = f
             /\ Len(blockList) = k + m
             /\ \A i \in 1..(k + m) :
                   /\ Len(blockList[i]) = blockSize
                   /\ enc.views[i].size = blockSize
                   /\ IF i <= f
                      THEN /\ enc.views[i].buf = "data"
                           /\ enc.views[i].pos = (i - 1) * blockSize
                           /\ enc.views[i].pos + blockSize <= n
                      ELSE /\ enc.views[i].buf = "tmp"
                           /\ enc.views[i].pos >= 0
                           /\ enc.views[i].pos + blockSize <= enc.tmpSize
             /\ \A i \in 1..k : \A q \in 1..blockSize :
                   blockList[i][q] =
                       IF (i - 1) * blockSize + q <= n
                       THEN dataBin[(i - 1) * blockSize + q] ELSE 0
             /\ enc.tmpSize = (k + m - f) * blockSize + 16
             /\ enc.align \in 0..15
             /\ enc.tailLen >= 0
             /\ enc.tailSrc + enc.tailLen <= n
             /\ enc.align + enc.tailLen <= enc.tmpSize

\* The scratch region as doDecode's erasure path leaves it for the index
\* set avail, fresh memory holding zeros.
FullReconstruction(avail, bs) ==
    ScheduleDecode(FillSlots(Fill(bs * (k + m), 0), avail, k + m, bs),
                   Erasures(avail, k + m), bs)

\* C7: for a set of at least k distinct supplied stripe indices and a
\* request list R of erased indices, doRepair returns |R| fragments in the
\* order of R, each blockSize bytes and equal to slot R[i] of the full
\* reconstruction of doDecode's erasure path, which is the fragment R[i] as
\* encoded; an empty R gives an empty result and no error.
C7_RepairCorrect ==
    (Called("repair") /\ ValidFragmentSet(call.blockIdList)
        /\ Range(call.repairList) \subseteq Slots \ Range(call.blockIdList))
      => /\ call.returned
         /\ call.error = ""
         /\ Len(call.repairBlocks) = Len(call.repairList)
         /\ \A i \in 1..Len(call.repairList) :
               /\ Len(call.repairBlocks[i]) = blockSize
               /\ call.repairBlocks[i] = blockList[call.repairList[i] + 1]
               /\ call.repairBlocks[i] =
                     SubBinary(FullReconstruction(Range(call.blockIdList),
                                                  blockSize),
                               call.repairList[i] * blockSize, blockSize)

C7_Witness ==
    /\ Called("repair")
    /\ ValidFragmentSet(call.blockIdList)
    /\ call.returned
    /\ Len(call.repairList) = 2
    /\ call.repairList[1] > call.repairList[2]
    /\ call.repairList[2] < k
    /\ call.repairList[1] >= k
    /\ Len(call.repairBlocks) = 2

\* C8: on the fast path (all data indices supplied) doDecode allocates
\* exactly dataSize bytes and copies from fragment i, at offset i*blockSize,
\* min(blockSize, bytes not yet covered) bytes: dataSize bytes in all, none
\* outside the output buffer, for every 0 <= dataSize <= k*blockSize; and no
\* Field Engine routine is called.
C8_FastPath ==
    (Called("decode") /\ ValidFragmentSet(call.blockIdList)
        /\ ~NeedFix(Range(call.blockIdList))
        /\ call.dataSize <= k * blockSize)
      => /\ call.returned
         /\ call.allocs = <<call.dataSize>>
         /\ call.engine = <<>>
         /\ Len(call.copies) = k
         /\ \A i \in 1..k :
               /\ call.copies[i].off = (i - 1) * blockSize
               /\ call.copies[i].len =
                     Min(blockSize,
                         Max(call.dataSize - (i - 1) * blockSize, 0))
               /\ call.copies[i].len > 0
                     => call.copies[i].off + call.copies[i].len
                            <= call.dataSize

\* C9: the carving loop of doEncode terminates for every object length,
\* zero included: each iteration makes progress, every write dataBlocks[f]
\* has f < k, and at the exit 0 <= f <= k and the tail is shorter than
\* blockSize; the call then runs to completion.
C9_EncodeTerminates ==
    /\ (pc = "carve" /\ remain >= blockSize) => filled < k
    /\ (pc = "carve") => (filled \in 0..k /\ remain >= 0)
    /\ (pc = "encoded" /\ enc.state = "done")
          => /\ filled \in 0..k
             /\ Len(dataBin) - filled * blockSize < blockSize
    /\ "dataBlocks" \notin ub

\* C10: in a decode or repair call that passes the count and uniqueness
\* checks, every index used on blocks[] is in 0..k+m-1, the erasure list is
\* the ascending complement of the supplied indices, it has at most m
\* entries, the sentinel lands inside erasures[], and at least k slots are
\* filled from supplied fragments.
C10_SlotIndexSafe ==
    (CalledAny /\ Distinct(call.blockIdList) >= k
        /\ ~HasDuplicate(call.blockIdList))
      => /\ \A i \in 1..Len(call.slots) : call.slots[i] \in Slots
         /\ "blocks" \notin call.ub
         /\ "erasures" \notin call.ub
         /\ call.sentinel >= 0
              => /\ call.erasures = Ascending(Slots \ Range(call.blockIdList))
                 /\ Len(call.erasures) <= m
                 /\ call.sentinel < k + m
                 /\ Cardinality(Slots \cap Range(call.blockIdList)) >= k
====
